---------------------------- MODULE Spec2Model ----------------------------
(***************************************************************************)
(* Model of the survey scoring scripts of mooretm/survey_scoring:          *)
(*   aphab.py            APHAB (benefit) scoring, one table                *)
(*   aphab_per_style.py  APHAB scoring, one run of score_aphab per style   *)
(*   ioi_ha.py           IOI-HA (normative) tagging against norms          *)
(*                                                                         *)
(* A script is a straight-line program; each action below is one block of  *)
(* the script (the blocks are the ones the source separates by comments),  *)
(* and pc is the block the interpreter executes next.                      *)
(*                                                                         *)
(* Representation.                                                         *)
(*   - A str is the tuple of its Unicode code points.  A field of the CSV  *)
(*     file is a str; the cell pd.read_csv gives for it is that str, or    *)
(*     NaN where the field is one of read_csv's NaN texts.  The columns    *)
(*     the scripts read have dtype object: the two rows under the header   *)
(*     of a Qualtrics export, which iloc[2:] drops, hold text.             *)
(*   - A float is a pair <<numerator, denominator>> in lowest terms with   *)
(*     a positive denominator; NaN is the empty tuple, and the infinities  *)
(*     are <<1, 0>> and <<-1, 0>>.  A float is exact (the model does not   *)
(*     round to 53 bits) and the integers of the model are those of TLC:   *)
(*     the inputs hold numbers of a few digits.                            *)
(*   - A DataFrame is the sequence of its rows in index order, each row a  *)
(*     record of its columns.                                              *)
(*   - The integer placeholder 0 of the subscale column is written "0",    *)
(*     the text it has in the saved CSV.                                   *)
(***************************************************************************)
EXTENDS Integers, Sequences, FiniteSets, TLC

(***************************************************************************)
(* Bounds of the model.                                                    *)
(***************************************************************************)
\* Largest number of data rows (subjects' submissions) in an input table.
MaxRows == 2
\* Largest number of cells a generated submission leaves unanswered
\* (or fills with an invalid code) in the subscale it perturbs.
MaxBlank == 3

(***************************************************************************)
(* Floats.                                                                 *)
(***************************************************************************)
NaN == <<>>

IsNaN(x) == x = NaN

Abs(n) == IF n < 0 THEN -n ELSE n

RECURSIVE Gcd(_, _)
Gcd(a, b) == IF b = 0 THEN a ELSE Gcd(b, a % b)

\* The float n/d (d > 0) in lowest terms.
Rat(n, d) ==
    LET g == Gcd(Abs(n), d)
    IN  <<n \div g, d \div g>>

Int2Float(n) == <<n, 1>>

RatAdd(x, y) == Rat(x[1] * y[2] + y[1] * x[2], x[2] * y[2])

RatDivInt(x, k) == Rat(x[1], x[2] * k)

\* x <= y for floats; any comparison with NaN is False.
RatLeq(x, y) ==
    IF IsNaN(x) \/ IsNaN(y) THEN FALSE ELSE x[1] * y[2] <= y[1] * x[2]

RatGt(x, y) ==
    IF IsNaN(x) \/ IsNaN(y) THEN FALSE ELSE x[1] * y[2] > y[1] * x[2]

(***************************************************************************)
(* Sequence helpers.                                                       *)
(***************************************************************************)
\* The sequence with the elements of the function f on 1..n.  (TLC applies
\* a function expression by evaluating its body; as a tuple it is a value.)
Tuple(f) == f \o <<>>

Range(s) == {s[i] : i \in 1..Len(s)}

Reverse(s) == Tuple([i \in 1..Len(s) |-> s[Len(s) + 1 - i]])

\* list(range(a, b)) for a <= b
RangeList(a, b) == [i \in 1..(b - a) |-> a + i - 1]

\* The rows of df whose positions are in the set I, in order (boolean-mask
\* indexing, I being the positions where the mask is True).
RECURSIVE PickRange(_, _, _, _)
PickRange(df, I, lo, hi) ==
    IF lo > hi THEN <<>>
    ELSE IF lo = hi THEN (IF lo \in I THEN <<df[lo]>> ELSE <<>>)
    ELSE LET mid == (lo + hi) \div 2
         IN  PickRange(df, I, lo, mid) \o PickRange(df, I, mid + 1, hi)

Pick(df, I) == PickRange(df, I, 1, Len(df))

\* The values of s in order of first appearance (Series.unique()).
Unique(s) == Pick(s, {i \in 1..Len(s) : \A j \in 1..(i - 1) : s[j] # s[i]})

\* The concatenation of the sequences ss[lo], ..., ss[hi].  (The recursions
\* of this module halve their range, which keeps the evaluation shallow.)
RECURSIVE FlattenRange(_, _, _)
FlattenRange(ss, lo, hi) ==
    IF lo > hi THEN <<>>
    ELSE IF lo = hi THEN Tuple(ss[lo])
    ELSE LET mid == (lo + hi) \div 2
         IN  FlattenRange(ss, lo, mid) \o FlattenRange(ss, mid + 1, hi)

Flatten(ss) == FlattenRange(ss, 1, Len(ss))

\* Series.mean() as called by np.mean on a Series: NaN is skipped, and the
\* mean of no values is NaN.
RECURSIVE SumRange(_, _, _)
SumRange(s, lo, hi) ==
    IF lo > hi THEN Int2Float(0)
    ELSE IF lo = hi THEN (IF IsNaN(s[lo]) THEN Int2Float(0) ELSE s[lo])
    ELSE LET mid == (lo + hi) \div 2
         IN  RatAdd(SumRange(s, lo, mid), SumRange(s, mid + 1, hi))

SumFloats(s) == SumRange(s, 1, Len(s))

CountValid(s) == Cardinality({i \in 1..Len(s) : ~IsNaN(s[i])})

Mean(s) ==
    IF CountValid(s) = 0 THEN NaN ELSE RatDivInt(SumFloats(s), CountValid(s))

(***************************************************************************)
(* Text.  A str is the tuple of its Unicode code points; the cells of the  *)
(* model are written with Text, so Text("3.0") is <<51, 46, 48>>.          *)
(***************************************************************************)
\* The printable ASCII characters from code point 32 to 95 and from 97 to
\* 126 (a string of the model cannot hold code point 96).
AsciiTo95 ==
    " !\"#$%&'()*+,-./0123456789:;<=>?@ABCDEFGHIJKLMNOPQRSTUVWXYZ[\\]^_"

AsciiFrom97 == "abcdefghijklmnopqrstuvwxyz{|}~"

CodePoint(c) ==
    IF \E i \in 1..Len(AsciiTo95) : SubSeq(AsciiTo95, i, i) = c
    THEN 31 + (CHOOSE i \in 1..Len(AsciiTo95) : SubSeq(AsciiTo95, i, i) = c)
    ELSE 96 + (CHOOSE i \in 1..Len(AsciiFrom97) : SubSeq(AsciiFrom97, i, i) = c)

Text(s) == Tuple([i \in 1..Len(s) |-> CodePoint(SubSeq(s, i, i))])

(***************************************************************************)
(* int() and float() of a str, as CPython parses it.  A float is kept      *)
(* exact (no rounding to 53 bits).                                         *)
(***************************************************************************)
\* Py_ISSPACE: the white space the parsers skip at both ends.  The
\* separators 28 to 31 are white space to str.isspace() but not to int()
\* and float(): int("\x1c3") raises ValueError.
AsciiSpace == {9, 10, 11, 12, 13, 32}

\* Py_UNICODE_ISSPACE above ASCII.
UnicodeSpace ==
    {133, 160, 5760} \cup 8192..8202 \cup {8232, 8233, 8239, 8287, 12288}

\* The code point of the digit zero of every decimal script (Unicode 14);
\* the nine code points after each are its digits 1 to 9.
DecimalZeros ==
    {48, 1632, 1776, 1984, 2406, 2534, 2662, 2790, 2918, 3046, 3174,
     3302, 3430, 3558, 3664, 3792, 3872, 4160, 4240, 6112, 6160, 6470,
     6608, 6784, 6800, 6992, 7088, 7232, 7248, 42528, 43216, 43264,
     43472, 43504, 43600, 44016, 65296, 66720, 68912, 69734, 69872,
     69942, 70096, 70384, 70736, 70864, 71248, 71360, 71472, 71904,
     72016, 72784, 73040, 73120, 92768, 92864, 93008, 120782, 120792,
     120802, 120812, 120822, 123200, 123632, 125264, 130032}

\* Py_UNICODE_TODECIMAL: the value of a decimal digit, -1 for another
\* character.
Decimal(c) ==
    IF c \in 48..57 THEN c - 48
    ELSE IF \E z \in DecimalZeros : c \in z..(z + 9)
    THEN c - (CHOOSE z \in DecimalZeros : c \in z..(z + 9))
    ELSE -1

\* _PyUnicode_TransformDecimalAndSpaceToASCII on one character: ASCII is
\* kept, white space becomes a space, a decimal digit its ASCII digit and
\* any other character "?" (which no number contains).
ToAscii(c) ==
    IF c < 127 THEN c
    ELSE IF c \in UnicodeSpace THEN 32
    ELSE IF Decimal(c) >= 0 THEN 48 + Decimal(c)
    ELSE 63

Transform(t) == Tuple([i \in 1..Len(t) |-> ToAscii(t[i])])

\* The text without the white space at its ends.
Strip(t) ==
    LET ink == {i \in 1..Len(t) : t[i] \notin AsciiSpace}
    IN  IF ink = {} THEN <<>>
        ELSE SubSeq(t, CHOOSE i \in ink : \A j \in ink : i <= j,
                       CHOOSE i \in ink : \A j \in ink : j <= i)

\* A text starts with "-"; the text after its sign "+" or "-".
Negative(s) == Len(s) >= 1 /\ s[1] = 45

Unsigned(s) == IF Len(s) >= 1 /\ s[1] \in {43, 45} THEN SubSeq(s, 2, Len(s)) ELSE s

\* digitpart: ASCII digits, with single underscores (95) between digits.
DigitPart(t) ==
    /\ Len(t) >= 1
    /\ t[1] \in 48..57
    /\ t[Len(t)] \in 48..57
    /\ \A i \in 1..Len(t) : t[i] \in 48..57 \cup {95}
    /\ \A i \in 1..(Len(t) - 1) : ~(t[i] = 95 /\ t[i + 1] = 95)

\* The number written by the first n characters of a digitpart.
RECURSIVE DigitsValue(_, _)
DigitsValue(t, n) ==
    IF n = 0 THEN 0
    ELSE IF t[n] = 95 THEN DigitsValue(t, n - 1)
    ELSE 10 * DigitsValue(t, n - 1) + (t[n] - 48)

DigitCount(t) == Cardinality({i \in 1..Len(t) : t[i] # 95})

RECURSIVE Pow10(_)
Pow10(k) == IF k = 0 THEN 1 ELSE 10 * Pow10(k - 1)

IntOfBody(negative, body) ==
    IF DigitPart(body)
    THEN [ok |-> TRUE,
          value |-> (IF negative THEN -1 ELSE 1) * DigitsValue(body, Len(body))]
    ELSE [ok |-> FALSE, value |-> 0]

\* int(text): ok is FALSE where the interpreter raises ValueError.
int(text) ==
    IntOfBody(Negative(Strip(Transform(text))), Unsigned(Strip(Transform(text))))

\* The lower-case letter of an ASCII capital.
LowerChar(c) == IF c \in 65..90 THEN c + 32 ELSE c

Lower(t) == Tuple([i \in 1..Len(t) |-> LowerChar(t[i])])

\* The position of the first c in t; Len(t) + 1 when t has none.
Find(t, c) ==
    IF \A i \in 1..Len(t) : t[i] # c THEN Len(t) + 1
    ELSE CHOOSE i \in 1..Len(t) : t[i] = c /\ \A j \in 1..(i - 1) : t[j] # c

\* What precedes and what follows the first c of t.
Before(t, c) == SubSeq(t, 1, Find(t, c) - 1)

After(t, c) == SubSeq(t, Find(t, c) + 1, Len(t))

\* The float sign * m * 10^k.
Scaled(sign, m, k) ==
    IF k >= 0 THEN <<sign * m * Pow10(k), 1>> ELSE Rat(sign * m, Pow10(-k))

\* A decimal [digitpart] "." [digitpart] with at least one digitpart, and
\* an exponent [sign] digitpart when the text has an "e".
FloatOfParts(negative, whole, frac, has_exponent, exponent) ==
    IF /\ whole = <<>> \/ DigitPart(whole)
       /\ frac = <<>> \/ DigitPart(frac)
       /\ whole # <<>> \/ frac # <<>>
       /\ has_exponent => DigitPart(Unsigned(exponent))
    THEN [ok |-> TRUE,
          value |-> Scaled(IF negative THEN -1 ELSE 1,
                           DigitsValue(whole, Len(whole)) * Pow10(DigitCount(frac))
                               + DigitsValue(frac, Len(frac)),
                           (IF ~has_exponent THEN 0
                            ELSE (IF Negative(exponent) THEN -1 ELSE 1)
                                     * DigitsValue(Unsigned(exponent), Len(Unsigned(exponent))))
                               - DigitCount(frac))]
    ELSE [ok |-> FALSE, value |-> NaN]

\* The "." is 46.
FloatOfNumber(negative, mantissa, has_exponent, exponent) ==
    FloatOfParts(negative, Before(mantissa, 46), After(mantissa, 46),
                 has_exponent, exponent)

\* [sign] (inf | infinity | nan | decimal [exponent]) on the lowered text
\* after the sign; the "e" is 101.  Infinity is <<1, 0>>, minus infinity
\* <<-1, 0>>.
FloatOfBody(negative, b) ==
    IF b \in {Text("inf"), Text("infinity")}
    THEN [ok |-> TRUE, value |-> <<IF negative THEN -1 ELSE 1, 0>>]
    ELSE IF b = Text("nan") THEN [ok |-> TRUE, value |-> NaN]
    ELSE FloatOfNumber(negative, Before(b, 101), Find(b, 101) <= Len(b), After(b, 101))

\* float(text): ok is FALSE where the interpreter raises ValueError.
float(text) ==
    FloatOfBody(Negative(Strip(Transform(text))),
                Lower(Unsigned(Strip(Transform(text)))))

(***************************************************************************)
(* pd.read_csv and astype(float) on one cell.                              *)
(***************************************************************************)
\* The fields pd.read_csv reads as NaN in every version of pandas
\* (STR_NA_VALUES).
NaTokens ==
    {Text(""), Text("#N/A"), Text("#N/A N/A"), Text("#NA"), Text("-1.#IND"),
     Text("-1.#QNAN"), Text("-NaN"), Text("-nan"), Text("1.#IND"),
     Text("1.#QNAN"), Text("<NA>"), Text("N/A"), Text("NA"), Text("NULL"),
     Text("NaN"), Text("n/a"), Text("nan"), Text("null")}

\* The NaN fields of the versions of pandas the scripts may run on: the
\* field None is one from pandas 2.0 on, and the scripts name no version.
na_values == {NaTokens, NaTokens \cup {Text("None")}}

\* The cell pd.read_csv gives for a field.
ReadCell(field, na) == IF field \in na THEN NaN ELSE field

\* The cell is the text of one ASCII digit.
OneDigit(cell) == Len(cell) = 1 /\ cell[1] \in 48..57

\* astype(float) on one cell of an object column: NaN stays NaN, a str is
\* parsed by float() (a one-digit text is read at once: float("3") is 3.0).
AsFloat(cell) ==
    IF cell = NaN THEN NaN
    ELSE IF OneDigit(cell) THEN Int2Float(cell[1] - 48)
    ELSE float(cell).value

\* astype(float) raises ValueError on a str that float() cannot parse.
FloatError(cell) == cell # NaN /\ ~OneDigit(cell) /\ ~float(cell).ok


(***************************************************************************)
(* APHAB instrument constants (identical in aphab.py and                   *)
(* aphab_per_style.py).                                                    *)
(***************************************************************************)
\* Leading metadata columns dropped by data_full.iloc[2:, 17:]
LeadingColumns == 17

\* Questions retained for scoring (q_num in range(0, 25))
RetainedQuestions == 24

\* Question columns named by aphab.py: colnames = list(range(1, 28))
AphabQuestionColumns == 27

\* Question columns named by aphab_per_style.py: colnames = list(range(1, 25))
StyleQuestionColumns == 24

\* A subscale with more than this many missing responses is removed (x > 2)
Tolerance == 2

reversed_questions == {1, 16, 19, 9, 11, 21}

scores == <<99, 87, 75, 50, 25, 12, 1>>

\* for idx, score in enumerate(scores, start=1): not_reversed_score[idx] = score
not_reversed_score == [idx \in 1..Len(scores) |-> scores[idx]]

\* scores.reverse(), then the same loop
reversed_score == [idx \in 1..Len(scores) |-> Reverse(scores)[idx]]

EC == <<4, 10, 12, 14, 15, 23>>
BN == <<1, 6, 7, 16, 19, 24>>
RV == <<2, 5, 9, 11, 18, 21>>
AV == <<3, 8, 13, 17, 20, 22>>

STYLES ==
    [code \in 1..7 |->
        <<"RIC_RT", "RIC_312", "mRIC_R", "ITE_R", "ITC_R", "CIC_312", "WiCROS">>[code]]

(***************************************************************************)
(* Scoring: data['value'].map(dict) and the np.where that selects between  *)
(* the two mapped columns.                                                 *)
(***************************************************************************)
\* A map that would substitute the first entry of the dict for NaN.
MapDefaultsWrong(value, dict) ==
    IF IsNaN(value) THEN Int2Float(dict[1])
    ELSE IF value[2] = 1 /\ value[1] \in DOMAIN dict THEN Int2Float(dict[value[1]])
    ELSE NaN

\* Series.map(dict) on one value: NaN and any value that is not a key of
\* the dict give NaN; the float 3.0 finds the key 3.
Map(value, dict) ==
    IF IsNaN(value) THEN NaN
    ELSE IF value[2] = 1 /\ value[1] \in DOMAIN dict THEN Int2Float(dict[value[1]])
    ELSE NaN

\* A 'reversed' column that would hold False on every row.
IsReversedNone(q_num) == FALSE

\* data['q_num'].isin([1, 16, 19, 9, 11, 21])
IsReversed(q_num) == q_num \in reversed_questions

\* np.where(data['reversed']==True, map(reversed_score), map(not_reversed_score))
ScoreOf(is_reversed, value) ==
    IF is_reversed = TRUE
    THEN Map(value, reversed_score)
    ELSE Map(value, not_reversed_score)

\* The two new columns of one long row.
ScoreRow(r) ==
    r @@ [reversed |-> IsReversed(r.q_num),
          score |-> ScoreOf(IsReversed(r.q_num), r.value)]

Score(df) == Tuple([i \in 1..Len(df) |-> ScoreRow(df[i])])

(***************************************************************************)
(* Subscale column: the if/elif chain of the loop over the rows.  The loop *)
(* addresses row ii by index label; in both scripts the labels of data are *)
(* 0..len(data)-1 at this point (melt and reset_index number the rows, and *)
(* the retained questions 1..24 are the first rows of the melted table).   *)
(***************************************************************************)
\* A chain that would lack its last branch.
SubscaleOfNoAV(q_num) ==
    IF q_num \in Range(EC) THEN "EC"
    ELSE IF q_num \in Range(BN) THEN "BN"
    ELSE IF q_num \in Range(RV) THEN "RV"
    ELSE "0"

\* if q_num in EC ... elif in BN ... elif in RV ... elif in AV; else the
\* placeholder stays.
SubscaleOf(q_num) ==
    IF q_num \in Range(EC) THEN "EC"
    ELSE IF q_num \in Range(BN) THEN "BN"
    ELSE IF q_num \in Range(RV) THEN "RV"
    ELSE IF q_num \in Range(AV) THEN "AV"
    ELSE "0"

AssignSubscale(df) ==
    Tuple([ii \in 1..Len(df) |-> df[ii] @@ [subscale |-> SubscaleOf(df[ii].q_num)]])

(***************************************************************************)
(* Missing data: the (subject, subscale) pairs with more than two null     *)
(* values, in the order the nested loops find them.                        *)
(***************************************************************************)
Column(df, c) == Tuple([i \in 1..Len(df) |-> df[i][c]])

\* data['subject'] == sub on one row: a subject cell that read_csv read as
\* NaN equals nothing (NaN == NaN is False).
SameSubject(a, b) == a # NaN /\ a = b

\* temp['value'].isnull().sum()
NullCount(df, sub, s) ==
    Cardinality({i \in 1..Len(df) :
        SameSubject(df[i].subject, sub) /\ df[i].subscale = s /\ IsNaN(df[i].value)})

\* A test that would already exclude a group with 2 missing responses.
InsufficientOffByOne(x) == x >= Tolerance

\* if x > 2
Insufficient(x) == x > Tolerance

\* The body of "for sub in data['subject'].unique()": the subscales of the
\* subject, in order of appearance, with more than 2 missing values.
MissingOfSubject(df, sub) ==
    LET single_sub_df == Pick(df, {i \in 1..Len(df) : SameSubject(df[i].subject, sub)})
        subs == Unique(Column(single_sub_df, "subscale"))
        found == {k \in 1..Len(subs) :
                     Insufficient(NullCount(single_sub_df, sub, subs[k]))}
    IN  Pick(Tuple([k \in 1..Len(subs) |-> <<sub, subs[k]>>]), found)

\* missing_data after the two nested loops.
MissingData(df) ==
    LET subjects == Unique(Column(df, "subject"))
    IN  Flatten([u \in 1..Len(subjects) |-> MissingOfSubject(df, subjects[u])])

\* for subject, subscale in missing_data: data = data[-bools]
RemoveMissing(df, md) ==
    Pick(df, {i \in 1..Len(df) :
                ~(\E k \in 1..Len(md) :
                     SameSubject(df[i].subject, md[k][1]) /\ df[i].subscale = md[k][2])})

(***************************************************************************)
(* Scores.  groupby(...)['score'].apply(np.mean) gives one row per key     *)
(* present in the data, in the sorted order of the keys; a row whose key   *)
(* is NaN (a subject cell read as NaN) belongs to no group.                *)
(***************************************************************************)
\* a < b for two str: a is a proper prefix of b, or a has the smaller code
\* point at the first position where they differ.
StrLess(a, b) ==
    \E i \in 1..(Len(a) + 1) :
        /\ i <= Len(b)
        /\ \A j \in 1..(i - 1) : a[j] = b[j]
        /\ (i = Len(a) + 1 \/ a[i] < b[i])

\* The place of a subscale name in the sort order of the four names (the
\* integer placeholder sorts before the names).
SubscaleRank(s) ==
    CASE s = "0" -> 0 [] s = "AV" -> 1 [] s = "BN" -> 2 [] s = "EC" -> 3 [] s = "RV" -> 4

\* The keys (subject, subscale) of K in sorted order: by subject, then by
\* subscale.
SortedKeys(K) ==
    Tuple([n \in 1..Cardinality(K) |->
        CHOOSE k \in K :
            Cardinality({j \in K :
                \/ StrLess(j[1], k[1])
                \/ j[1] = k[1] /\ SubscaleRank(j[2]) < SubscaleRank(k[2])}) = n - 1])

\* The subjects of S in sorted order.
SortedSubjects(S) ==
    Tuple([n \in 1..Cardinality(S) |->
        CHOOSE k \in S : Cardinality({j \in S : StrLess(j, k)}) = n - 1])

GroupScores(df, sub, s) ==
    Column(Pick(df, {i \in 1..Len(df) : df[i].subject = sub /\ df[i].subscale = s}),
           "score")

\* data.groupby(['subject', 'subscale'])['score'].apply(np.mean), reset_index
SubscaleData(df) ==
    LET keys == SortedKeys({<<df[i].subject, df[i].subscale>> :
                               i \in {j \in 1..Len(df) : df[j].subject # NaN}})
    IN  Tuple([k \in 1..Len(keys) |->
            [subject |-> keys[k][1], subscale |-> keys[k][2],
             score |-> Mean(GroupScores(df, keys[k][1], keys[k][2]))]])

\* data.loc[data['subscale'].isin(['BN', 'EC', 'RV'])]
GlobalSubscales == {"BN", "EC", "RV"}

\* global_scores.groupby(['subject'])['score'].apply(np.mean), reset_index
GlobalScores(df) ==
    LET kept == Pick(df, {i \in 1..Len(df) : df[i].subscale \in GlobalSubscales})
        subjects == SortedSubjects({kept[i].subject : i \in 1..Len(kept)} \ {NaN})
    IN  Tuple([k \in 1..Len(subjects) |->
            [subject |-> subjects[k],
             score |-> Mean(Column(Pick(kept, {i \in 1..Len(kept) :
                                                  kept[i].subject = subjects[k]}),
                                   "score"))]])


(***************************************************************************)
(* Reading and reshaping.  After data.columns = colnames a wide row has    *)
(* the columns 'subject', ('style',) 1, 2, ...; it is modelled as a record *)
(* whose field q is the function from question number to cell.             *)
(***************************************************************************)
\* pd.read_csv on the fields of the rows and columns that iloc[2:, 17:]
\* keeps, with the NaN fields na of the pandas at hand.
ReadCsv(fields, na) ==
    [i \in 1..Len(fields) |-> [k \in 1..Len(fields[i]) |-> ReadCell(fields[i][k], na)]]

\* data.columns = colnames succeeds only when the table has len(colnames)
\* columns; pandas raises ValueError (length mismatch) otherwise.
ColumnsFit(table, colnames_len) == \A i \in 1..Len(table) : Len(table[i]) = colnames_len

\* aphab.py: colnames = ['subject', 1, ..., 27]
AphabNamed(data_full) ==
    [i \in 1..Len(data_full) |->
        [subject |-> data_full[i][1],
         q |-> [n \in 1..AphabQuestionColumns |-> data_full[i][1 + n]]]]

\* Lines 193-194 on one style cell: int(style) raises ValueError on NaN
\* and on a str that is not an integer text, STYLES[...] raises KeyError on
\* a number that is no key.
StyleCellError(cell) ==
    IF cell = NaN \/ ~int(cell).ok THEN "ValueError"
    ELSE IF int(cell).value \notin DOMAIN STYLES THEN "KeyError"
    ELSE "none"

\* The exception of the loop of lines 193-194: that of the first row whose
\* style cell raises one; "none" when the loop ends.
StyleError(data_full) ==
    LET bad == {i \in 1..Len(data_full) : StyleCellError(data_full[i][2]) # "none"}
    IN  IF bad = {} THEN "none"
        ELSE StyleCellError(data_full[CHOOSE i \in bad : \A j \in bad : i <= j][2])

\* aphab_per_style.py: colnames = ['subject', 'style', 1, ..., 24], then
\* data.iloc[ii, 1] = STYLES[int(style)]
StyleNamed(data_full) ==
    [i \in 1..Len(data_full) |->
        [subject |-> data_full[i][1],
         style |-> STYLES[int(data_full[i][2]).value],
         q |-> [n \in 1..StyleQuestionColumns |-> data_full[i][2 + n]]]]

\* pd.melt(data, id_vars='subject', value_vars=list(range(1, n+1))), the
\* rename of 'variable' to 'q_num' and astype(float) on 'value': the rows
\* of question 1 for every wide row, then those of question 2, ...
AphabMelt(wide, n) ==
    Flatten([v \in 1..n |->
        [i \in 1..Len(wide) |->
            [subject |-> wide[i].subject, q_num |-> v,
             value |-> AsFloat(wide[i].q[v])]]])

\* pd.melt(data, id_vars=['subject', 'style'], value_vars=list(range(1, 25)))
StyleMelt(wide, n) ==
    Flatten([v \in 1..n |->
        [i \in 1..Len(wide) |->
            [subject |-> wide[i].subject, style |-> wide[i].style, q_num |-> v,
             value |-> AsFloat(wide[i].q[v])]]])

\* data['value'].astype(float) raises ValueError when a melted cell is a
\* str that float() cannot parse.
FloatErrors(w, n) == \E i \in 1..Len(w) : \E v \in 1..n : FloatError(w[i].q[v])

\* data[data['q_num'].isin(range(0, 25))]
Retain(df) == Pick(df, {i \in 1..Len(df) : df[i].q_num \in 0..RetainedQuestions})

(***************************************************************************)
(* State.                                                                  *)
(***************************************************************************)
VARIABLES
    script,         \* the script that runs: "aphab", "aphab_per_style", "ioi_ha"
    pc,             \* the block executed next; "done", "aborted" are final
    error,          \* the exception that ended the run, or "none"
    table,          \* the fields of the CSV file in the rows and columns of
                    \* data_full.iloc[2:, 17:]
    wide,           \* data after data.columns = colnames (wide format)
    data,           \* the long DataFrame the script works on
    all_styles,     \* score_aphab: the copy of the full long table
    unique_styles,  \* score_aphab: styles still to be scored, in order
    style,          \* score_aphab: the style of the current iteration
    missing_data,   \* the list of (subject, subscale) with insufficient data
    files,          \* the CSV files written so far: name and table
    norms,          \* ioi_ha.py: the variable norms of the tagging loop
    row             \* ioi_ha.py: the loop variable of the tagging loop

vars == <<script, pc, error, table, wide, data, all_styles, unique_styles,
          style, missing_data, files, norms, row>>

NoStyle == "none"

(***************************************************************************)
(* Input tables.  The first row of a table is any submission of Sheets by  *)
(* subject s1; each later row is a submission of CompanionSheets by s1     *)
(* again (a repeated subject) or by s2.                                    *)
(***************************************************************************)
Subjects == {Text("s1"), Text("s2")}

SubscaleList(s) ==
    CASE s = "EC" -> EC [] s = "BN" -> BN [] s = "RV" -> RV [] s = "AV" -> AV

\* A submission in which every question is answered `code`, except that
\* the first m questions of subscale s hold `fill`.
Sheet(code, s, m, fill) ==
    [n \in 1..AphabQuestionColumns |->
        IF \E k \in 1..m : k <= Len(SubscaleList(s)) /\ SubscaleList(s)[k] = n
        THEN fill ELSE code]

\* Nothing answered, every response code of the 7-point scale, and one
\* code outside it.
UniformSheets ==
    {Sheet(Text(code), "EC", 0, Text("")) :
        code \in {"", "1", "2", "3", "4", "5", "6", "7", "8"}}

\* Up to MaxBlank cells of one subscale empty.
BlankSheets ==
    {Sheet(Text("2"), s, m, Text("")) : s \in {"EC", "BN", "RV", "AV"}, m \in 1..MaxBlank}

\* One cell or MaxBlank cells of one subscale holding the invalid code 8.
InvalidSheets ==
    {Sheet(Text("2"), s, m, Text("8")) : s \in {"EC", "BN", "RV", "AV"}, m \in {1, MaxBlank}}

Sheets == UniformSheets \cup BlankSheets \cup InvalidSheets

\* Answers "4", with one cell or MaxBlank cells of BN empty.
CompanionSheets == {Sheet(Text("4"), "BN", m, Text("")) : m \in {1, MaxBlank}}

\* Every question answered "4".
FullSheet == Sheet(Text("4"), "EC", 0, Text(""))

\* A row of the table: subject, the cells of `lead`, then n question cells.
RawRow(sub, lead, sheet, n) == <<sub>> \o lead \o [k \in 1..n |-> sheet[k]]

Tables(first, later) ==
    {<<r>> \o rest : r \in first,
                     rest \in UNION {[1..k -> later] : k \in 0..(MaxRows - 1)}}

AphabTables ==
    Tables({RawRow(Text("s1"), <<>>, sh, AphabQuestionColumns) : sh \in Sheets},
           {RawRow(sub, <<>>, sh, AphabQuestionColumns) :
               sub \in Subjects, sh \in CompanionSheets})

StyleCodes == {Text("1"), Text("2")}

StyleTables ==
    Tables({RawRow(Text("s1"), <<st>>, sh, StyleQuestionColumns) :
               st \in StyleCodes, sh \in Sheets},
           {RawRow(sub, <<st>>, sh, StyleQuestionColumns) :
               sub \in Subjects, st \in StyleCodes, sh \in CompanionSheets})

\* Fields that are not a one-digit code: no number; a code of two digits;
\* a code with a decimal point; the code 3 after a space, after a vertical
\* tab (code point 11), after a no-break space (160), after the separator
\* of code point 28, and as the Arabic-Indic digit (1635); NaN texts of
\* read_csv, and the text None.
OddCells ==
    {Text("x"), Text("10"), Text("3.0"), Text(" 3"), <<11, 51>>, <<160, 51>>,
     <<28, 51>>, <<1635>>, Text("NA"), Text("N/A"), Text("null"), Text("None")}

\* One row of answers "4" whose first EC cell holds such a field.
OddCellTables(lead, n) ==
    {<<RawRow(Text("s1"), lead, Sheet(Text("4"), "EC", 1, c), n)>> : c \in OddCells}

\* Tables whose second row has a subject field that read_csv reads, or may
\* read, as NaN.
NamelessTables(lead, n) ==
    {<<RawRow(Text("s1"), lead, FullSheet, n), RawRow(sub, lead, sh, n)>> :
        sub \in {Text(""), Text("NA"), Text("None")}, sh \in CompanionSheets}

\* Tables whose column count is not the one the script names: one row of
\* answers "4" with n cells after the subject.
OtherWidths == {RetainedQuestions, RetainedQuestions + 1, AphabQuestionColumns}

OddTable(n) == <<RawRow(Text("s1"), <<>>, FullSheet, n)>>

InitCommon ==
    /\ pc = "columns"
    /\ error = "none"
    /\ wide = <<>>
    /\ data = <<>>
    /\ all_styles = <<>>
    /\ unique_styles = <<>>
    /\ style = NoStyle
    /\ missing_data = <<>>
    /\ files = <<>>
    /\ norms = [kind |-> "unbound"]
    /\ row = 0

InitAphab ==
    /\ script = "aphab"
    /\ table \in AphabTables \cup NamelessTables(<<>>, AphabQuestionColumns)
                           \cup OddCellTables(<<>>, AphabQuestionColumns)
                           \cup {OddTable(n) : n \in OtherWidths}
    /\ InitCommon

(***************************************************************************)
(* aphab.py                                                                *)
(***************************************************************************)
Abort(e) ==
    /\ pc' = "aborted"
    /\ error' = e
    /\ UNCHANGED <<script, table, wide, data, all_styles, unique_styles, style,
                   missing_data, files, norms, row>>

\* Lines 49-58: read the file, subset, name the columns.
Aphab_Columns ==
    /\ script = "aphab" /\ pc = "columns"
    /\ IF ColumnsFit(table, 1 + AphabQuestionColumns)
       THEN /\ \E na \in na_values : wide' = AphabNamed(ReadCsv(table, na))
            /\ pc' = "melt"
            /\ UNCHANGED <<script, error, table, data, all_styles, unique_styles,
                           style, missing_data, files, norms, row>>
       ELSE Abort("ValueError")

\* Lines 59-71: wide to long, floats, retain questions 1..24.
Aphab_Melt ==
    /\ script = "aphab" /\ pc = "melt"
    /\ IF FloatErrors(wide, AphabQuestionColumns) THEN Abort("ValueError")
       ELSE /\ data' = Retain(AphabMelt(wide, AphabQuestionColumns))
            /\ pc' = "score"
            /\ UNCHANGED <<script, error, table, wide, all_styles, unique_styles,
                           style, missing_data, files, norms, row>>

\* Lines 77-96: the columns 'reversed' and 'score'.
Aphab_Score ==
    /\ script = "aphab" /\ pc = "score"
    /\ data' = Score(data)
    /\ pc' = "subscale"
    /\ UNCHANGED <<script, error, table, wide, all_styles, unique_styles, style,
                   missing_data, files, norms, row>>

\* Lines 98-114: the column 'subscale'.
Aphab_Subscale ==
    /\ script = "aphab" /\ pc = "subscale"
    /\ data' = AssignSubscale(data)
    /\ pc' = "missing"
    /\ UNCHANGED <<script, error, table, wide, all_styles, unique_styles, style,
                   missing_data, files, norms, row>>

\* Lines 116-134: find the subscales with insufficient data.
Aphab_Missing ==
    /\ script = "aphab" /\ pc = "missing"
    /\ missing_data' = MissingData(data)
    /\ pc' = "clean"
    /\ UNCHANGED <<script, error, table, wide, data, all_styles, unique_styles,
                   style, files, norms, row>>

\* Lines 136-142: remove them.
Aphab_Clean ==
    /\ script = "aphab" /\ pc = "clean"
    /\ data' = RemoveMissing(data, missing_data)
    /\ pc' = "subscale_scores"
    /\ UNCHANGED <<script, error, table, wide, all_styles, unique_styles, style,
                   missing_data, files, norms, row>>

\* Lines 148-160: subscale scores, saved to <input>_SUBSCALE.csv.
Aphab_SubscaleScores ==
    /\ script = "aphab" /\ pc = "subscale_scores"
    /\ files' = Append(files, [name |-> "_SUBSCALE.csv", style |-> NoStyle,
                               rows |-> SubscaleData(data)])
    /\ pc' = "global_scores"
    /\ UNCHANGED <<script, error, table, wide, data, all_styles, unique_styles,
                   style, missing_data, norms, row>>

\* Lines 163-176: global scores, saved to <input>_GLOBAL.csv.
Aphab_GlobalScores ==
    /\ script = "aphab" /\ pc = "global_scores"
    /\ files' = Append(files, [name |-> "_GLOBAL.csv", style |-> NoStyle,
                               rows |-> GlobalScores(data)])
    /\ pc' = "plot_subscale"
    /\ UNCHANGED <<script, error, table, wide, data, all_styles, unique_styles,
                   style, missing_data, norms, row>>

\* The frames subscale_data and global_scores of the plots: the tables of
\* the two files written last.
subscale_data == files[Len(files) - 1].rows

global_scores == files[Len(files)].rows

\* sns.boxplot on a frame: "none" when it returns.  On a frame without rows
\* seaborn before 0.13 raises ValueError (its palette code takes min() of
\* an empty sequence) and later versions draw an empty plot; the scripts
\* name no version.
Boxplot(frame) == IF frame = <<>> THEN {"ValueError", "none"} ELSE {"none"}

\* The statements from a plotting call with those outcomes up to the call
\* of plt.show().
Plot(outcomes, show) ==
    \E e \in outcomes :
        IF e = "none"
        THEN /\ pc' = show
             /\ UNCHANGED <<script, error, table, wide, data, all_styles,
                            unique_styles, style, missing_data, files, norms, row>>
        ELSE Abort(e)

\* plt.show() returns when the user closes the plot window: the step is
\* the user's.
Show(after) ==
    /\ pc' = after
    /\ UNCHANGED <<script, error, table, wide, data, all_styles, unique_styles,
                   style, missing_data, files, norms, row>>

\* Lines 183-185: the box plot of the subscale scores.
Aphab_PlotSubscale ==
    /\ script = "aphab" /\ pc = "plot_subscale"
    /\ Plot(Boxplot(subscale_data), "show_subscale")

\* Line 186: plt.show()
Aphab_ShowSubscale ==
    /\ script = "aphab" /\ pc = "show_subscale"
    /\ Show("plot_global")

\* Lines 189-191: the box plot of the global scores.
Aphab_PlotGlobal ==
    /\ script = "aphab" /\ pc = "plot_global"
    /\ Plot(Boxplot(global_scores), "show_global")

\* Line 192: plt.show(), the last statement of the script.
Aphab_ShowGlobal ==
    /\ script = "aphab" /\ pc = "show_global"
    /\ Show("done")

NextAphab ==
    \/ Aphab_Columns
    \/ Aphab_Melt
    \/ Aphab_Score
    \/ Aphab_Subscale
    \/ Aphab_Missing
    \/ Aphab_Clean
    \/ Aphab_SubscaleScores
    \/ Aphab_GlobalScores
    \/ Aphab_PlotSubscale
    \/ Aphab_ShowSubscale
    \/ Aphab_PlotGlobal
    \/ Aphab_ShowGlobal

SpecAphab == InitAphab /\ [][NextAphab]_vars

(***************************************************************************)
(* aphab_per_style.py.  Style codes of the input are keys of STYLES.       *)
(***************************************************************************)
\* Style fields that name no style: an empty field, a NaN text of read_csv,
\* numbers that are no key of STYLES, texts int() cannot read.
BadStyleCodes == {Text(""), Text("NA"), Text("8"), Text("10"), Text("x"), <<28, 50>>}

\* Tables of the width the script names with such a style field: in the
\* only row, or in the second row after a row of style 1 or of such a field.
BadStyleTables ==
    LET r(st) == RawRow(Text("s1"), <<st>>, FullSheet, StyleQuestionColumns)
    IN  {<<r(a)>> : a \in BadStyleCodes}
            \cup {<<r(a), r(b)>> : a \in {Text("1")} \cup BadStyleCodes, b \in BadStyleCodes}

\* Style fields that int() reads as a key of STYLES although they are not
\* one-digit texts: a leading zero, a space, a no-break space (160), an
\* Arabic-Indic digit (1635).
PaddedStyleCodes == {Text("03"), Text(" 2"), <<160, 50>>, <<1635>>}

PaddedStyleTables ==
    {<<RawRow(Text("s1"), <<st>>, FullSheet, StyleQuestionColumns)>> :
        st \in PaddedStyleCodes}

InitStyle ==
    /\ script = "aphab_per_style"
    /\ table \in StyleTables \cup BadStyleTables
                           \cup NamelessTables(<<Text("1")>>, StyleQuestionColumns)
                           \cup OddCellTables(<<Text("1")>>, StyleQuestionColumns)
                           \cup PaddedStyleTables
                           \cup {OddTable(n) : n \in OtherWidths}
    /\ InitCommon

\* Lines 175-194: read the file, subset, name the columns, replace style
\* codes by names.
Style_Columns ==
    /\ script = "aphab_per_style" /\ pc = "columns"
    /\ \E na \in na_values :
          IF ~ColumnsFit(table, 2 + StyleQuestionColumns)
          THEN Abort("ValueError")
          ELSE IF StyleError(ReadCsv(table, na)) # "none"
          THEN Abort(StyleError(ReadCsv(table, na)))
          ELSE /\ wide' = StyleNamed(ReadCsv(table, na))
               /\ pc' = "melt"
               /\ UNCHANGED <<script, error, table, data, all_styles, unique_styles,
                              style, missing_data, files, norms, row>>

\* Lines 196-203: wide to long, floats.
Style_Melt ==
    /\ script = "aphab_per_style" /\ pc = "melt"
    /\ IF FloatErrors(wide, StyleQuestionColumns) THEN Abort("ValueError")
       ELSE /\ data' = StyleMelt(wide, StyleQuestionColumns)
            /\ pc' = "score"
            /\ UNCHANGED <<script, error, table, wide, all_styles, unique_styles,
                           style, missing_data, files, norms, row>>

\* Lines 209-236: the columns 'reversed' and 'score' (reset_index adds a
\* column 'index' that nothing reads).
Style_Score ==
    /\ script = "aphab_per_style" /\ pc = "score"
    /\ data' = Score(data)
    /\ pc' = "call"
    /\ UNCHANGED <<script, error, table, wide, all_styles, unique_styles, style,
                   missing_data, files, norms, row>>

\* Lines 239, 36-40: score_aphab(data): copy the data, list the styles.
Style_Call ==
    /\ script = "aphab_per_style" /\ pc = "call"
    /\ all_styles' = data
    /\ unique_styles' = Unique(Column(data, "style"))
    /\ pc' = "for_style"
    /\ UNCHANGED <<script, error, table, wide, data, style, missing_data, files,
                   norms, row>>

\* A subset that would keep the rows of every style.
StyleSubsetAll(all, st) == all

\* Lines 44-45: mask = all_styles['style'] == style; all_styles[mask].copy()
StyleSubset(all, st) == Pick(all, {i \in 1..Len(all) : all[i].style = st})

\* Lines 43-46: the next style of the loop and its rows, or the end of
\* the loop and of the script.
Style_ForStyle ==
    /\ script = "aphab_per_style" /\ pc = "for_style"
    /\ IF unique_styles = <<>>
       THEN /\ pc' = "done"
            /\ UNCHANGED <<style, data, unique_styles>>
       ELSE /\ style' = Head(unique_styles)
            /\ unique_styles' = Tail(unique_styles)
            /\ data' = StyleSubset(all_styles, Head(unique_styles))
            /\ pc' = "subscale"
    /\ UNCHANGED <<script, error, table, wide, all_styles, missing_data, files,
                   norms, row>>

\* Lines 48-64: the column 'subscale'.
Style_Subscale ==
    /\ script = "aphab_per_style" /\ pc = "subscale"
    /\ data' = AssignSubscale(data)
    /\ pc' = "missing"
    /\ UNCHANGED <<script, error, table, wide, all_styles, unique_styles, style,
                   missing_data, files, norms, row>>

\* Lines 66-87: find the subscales with insufficient data.
Style_Missing ==
    /\ script = "aphab_per_style" /\ pc = "missing"
    /\ missing_data' = MissingData(data)
    /\ pc' = "clean"
    /\ UNCHANGED <<script, error, table, wide, data, all_styles, unique_styles,
                   style, files, norms, row>>

\* Lines 89-95: remove them.
Style_Clean ==
    /\ script = "aphab_per_style" /\ pc = "clean"
    /\ data' = RemoveMissing(data, missing_data)
    /\ pc' = "subscale_scores"
    /\ UNCHANGED <<script, error, table, wide, all_styles, unique_styles, style,
                   missing_data, files, norms, row>>

\* Lines 97-112: subscale scores, saved to <style>_SUBSCALE_<input>.
Style_SubscaleScores ==
    /\ script = "aphab_per_style" /\ pc = "subscale_scores"
    /\ files' = Append(files, [name |-> "_SUBSCALE_", style |-> style,
                               rows |-> SubscaleData(data)])
    /\ pc' = "global_scores"
    /\ UNCHANGED <<script, error, table, wide, data, all_styles, unique_styles,
                   style, missing_data, norms, row>>

\* Lines 115-128: global scores, saved to <style>_GLOBAL_<input>.
Style_GlobalScores ==
    /\ script = "aphab_per_style" /\ pc = "global_scores"
    /\ files' = Append(files, [name |-> "_GLOBAL_", style |-> style,
                               rows |-> GlobalScores(data)])
    /\ pc' = "plot_subscale"
    /\ UNCHANGED <<script, error, table, wide, data, all_styles, unique_styles,
                   style, missing_data, norms, row>>

\* Lines 134-136: the box plot of the subscale scores of the style.
Style_PlotSubscale ==
    /\ script = "aphab_per_style" /\ pc = "plot_subscale"
    /\ Plot(Boxplot(subscale_data), "show_subscale")

\* Lines 137-138: plt.show(), plt.close()
Style_ShowSubscale ==
    /\ script = "aphab_per_style" /\ pc = "show_subscale"
    /\ Show("plot_global")

\* Lines 141-143: the box plot of the global scores of the style.
Style_PlotGlobal ==
    /\ script = "aphab_per_style" /\ pc = "plot_global"
    /\ Plot(Boxplot(global_scores), "show_global")

\* Lines 144-145: plt.show(), plt.close(); the loop goes on.
Style_ShowGlobal ==
    /\ script = "aphab_per_style" /\ pc = "show_global"
    /\ Show("for_style")

NextStyle ==
    \/ Style_Columns
    \/ Style_Melt
    \/ Style_Score
    \/ Style_Call
    \/ Style_ForStyle
    \/ Style_Subscale
    \/ Style_Missing
    \/ Style_Clean
    \/ Style_SubscaleScores
    \/ Style_GlobalScores
    \/ Style_PlotSubscale
    \/ Style_ShowSubscale
    \/ Style_PlotGlobal
    \/ Style_ShowGlobal

SpecStyle == InitStyle /\ [][NextStyle]_vars

(***************************************************************************)
(* Both APHAB scripts.                                                     *)
(***************************************************************************)
Init == InitAphab \/ InitStyle

Next == NextAphab \/ NextStyle

Spec == Init /\ [][Next]_vars

(***************************************************************************)
(* ioi_ha.py                                                               *)
(***************************************************************************)
\* Question columns named by ioi_ha.py: colnames = list(range(1, 9))
IoiQuestionColumns == 8

\* The self-rated difficulty question: bools = data[8] > 2
DifficultyQuestion == 8
DifficultyThreshold == 2

\* A float written with two decimals, as in the dictionaries of norms.
Hundredths(n) == Rat(n, 100)

\* "Tuples include lower and upper limits"
ind_mild_dict ==
    [q \in 1..7 |->
        << <<3, 5>>, <<3, 4>>, <<3, 4>>, <<2, 4>>, <<3, 4>>, <<3, 5>>, <<3, 4>> >>[q]]

\* The values of ind_mod_dict, in hundredths: 1: (4.5, 0.96), ...
ind_mod_dict ==
    [q \in 1..7 |->
        << <<450, 96>>, <<352, 108>>, <<319, 105>>, <<384, 117>>,
           <<338, 111>>, <<338, 110>>, <<368, 102>> >>[q]]

\* Lines 97-99: bools = data[8] > 2; True is 'mild-mod', False 'mod-severe'
\* (NaN > 2 is False).
Difficulty(v) ==
    IF RatGt(v, Int2Float(DifficultyThreshold)) THEN "mild-mod" ELSE "mod-severe"

\* Lines 91-92: data[cols].astype(float) raises ValueError when a question
\* cell is a str that float() cannot parse.
IoiFloatErrors(data_full) ==
    \E i \in 1..Len(data_full) : \E n \in 1..IoiQuestionColumns :
        FloatError(data_full[i][1 + n])

\* Lines 82-99: names, floats, the column 'difficulty'.
IoiNamed(data_full) ==
    Tuple([i \in 1..Len(data_full) |->
        [subject |-> data_full[i][1],
         q |-> [n \in 1..IoiQuestionColumns |-> AsFloat(data_full[i][1 + n])],
         difficulty |-> Difficulty(AsFloat(data_full[i][1 + DifficultyQuestion]))]])

\* Lines 102-106, 136: pd.melt(data, id_vars=['subject', 'difficulty'],
\* value_vars=list(range(1, 9))), renamed; the empty column 'WNL'.
IoiMelt(w, n) ==
    Flatten([v \in 1..n |->
        [i \in 1..Len(w) |->
            [subject |-> w[i].subject, difficulty |-> w[i].difficulty,
             question |-> v, score |-> w[i].q[v], WNL |-> ""]]])

\* Lines 138-144: the first try block of the loop body.  The value of norms
\* after it: a pair of floats, 'error' after a KeyError, or what it was.
NormsAfter(r, before) ==
    IF r.difficulty = "mild_mod"
    THEN IF r.question \in DOMAIN ind_mild_dict
         THEN [kind |-> "pair",
               n0 |-> Int2Float(ind_mild_dict[r.question][1]),
               n1 |-> Int2Float(ind_mild_dict[r.question][2])]
         ELSE [kind |-> "error"]
    ELSE IF r.difficulty = "mod-severe"
    THEN IF r.question \in DOMAIN ind_mod_dict
         THEN [kind |-> "pair",
               n0 |-> Hundredths(ind_mod_dict[r.question][1]),
               n1 |-> Hundredths(ind_mod_dict[r.question][2])]
         ELSE [kind |-> "error"]
    ELSE before

\* Lines 146-155: the second try block.  norms[0]+norms[1] of the string
\* 'error' is the string 'er', and comparing a float with it raises the
\* TypeError that is caught; a NaN score compares False.
Tag(score, n) ==
    IF n.kind = "error" THEN "NA"
    ELSE IF /\ RatLeq(score, RatAdd(n.n0, n.n1))
            /\ RatLeq(RatAdd(n.n0, <<-n.n1[1], n.n1[2]>>), score)
    THEN "wnl"
    ELSE "outside"

\* A submission: the difficulty question answered d, the others c.
IoiSheet(d, c) ==
    [n \in 1..IoiQuestionColumns |-> IF n = DifficultyQuestion THEN d ELSE c]

InitIoi ==
    /\ script = "ioi_ha"
    /\ table \in
          Tables({RawRow(Text("s1"), <<>>, IoiSheet(Text(d), Text(c)), IoiQuestionColumns) :
                     d \in {"", "1", "2", "3", "4"}, c \in {"", "1", "2", "3", "4", "5"}},
                 {RawRow(sub, <<>>, IoiSheet(Text(d), Text(c)), IoiQuestionColumns) :
                     sub \in Subjects, d \in {"2", "3"}, c \in {"3", "5"}})
          \cup {<<RawRow(Text("s1"), <<>>,
                         [n \in 1..IoiQuestionColumns |-> IF n = 1 THEN c ELSE Text("3")],
                         IoiQuestionColumns)>> : c \in OddCells}
          \cup {OddTable(n) : n \in OtherWidths}
    /\ InitCommon

\* Lines 79-99: read the file, subset, name the columns, floats,
\* difficulty.
Ioi_Columns ==
    /\ script = "ioi_ha" /\ pc = "columns"
    /\ \E na \in na_values :
          IF ~ColumnsFit(table, 1 + IoiQuestionColumns) THEN Abort("ValueError")
          ELSE IF IoiFloatErrors(ReadCsv(table, na)) THEN Abort("ValueError")
          ELSE /\ wide' = IoiNamed(ReadCsv(table, na))
               /\ pc' = "melt"
               /\ UNCHANGED <<script, error, table, data, all_styles, unique_styles,
                              style, missing_data, files, norms, row>>

\* Lines 101-136: wide to long, the empty column 'WNL'.
Ioi_Melt ==
    /\ script = "ioi_ha" /\ pc = "melt"
    /\ data' = IoiMelt(wide, IoiQuestionColumns)
    /\ row' = 0
    /\ pc' = "for_row"
    /\ UNCHANGED <<script, error, table, wide, all_styles, unique_styles, style,
                   missing_data, files, norms>>

\* Lines 137-155: one iteration of the loop over the rows (row counts from
\* 0 as in the source; the row is at position row + 1).  Reading norms
\* before any assignment to it raises NameError, which nothing catches.
Ioi_ForRow ==
    /\ script = "ioi_ha" /\ pc = "for_row"
    /\ row < Len(data)
    /\ LET r == data[row + 1]
           n == NormsAfter(r, norms)
       IN  IF n.kind = "unbound"
           THEN Abort("NameError")
           ELSE /\ norms' = n
                /\ data' = [data EXCEPT ![row + 1].WNL = Tag(r.score, n)]
                /\ row' = row + 1
                /\ UNCHANGED <<script, pc, error, table, wide, all_styles,
                               unique_styles, style, missing_data, files>>

\* Lines 161-164: the loop is over; the data frames of the two tiers are
\* made (mild_mod, mod_severe below).
Ioi_Finish ==
    /\ script = "ioi_ha" /\ pc = "for_row"
    /\ row = Len(data)
    /\ pc' = "plot_mild"
    /\ UNCHANGED <<script, error, table, wide, data, all_styles, unique_styles,
                   style, missing_data, files, norms, row>>

\* data_long[data_long['difficulty']=='mild-mod']
mild_mod == Pick(data, {i \in 1..Len(data) : data[i].difficulty = "mild-mod"})

\* data_long[data_long['difficulty']=='mod-severe']
mod_severe == Pick(data, {i \in 1..Len(data) : data[i].difficulty = "mod-severe"})

\* Lines 172-174: the box plot of the mild-moderate tier.
Ioi_PlotMild ==
    /\ script = "ioi_ha" /\ pc = "plot_mild"
    /\ Plot(Boxplot(mild_mod), "show_mild")

\* Line 175: plt.show()
Ioi_ShowMild ==
    /\ script = "ioi_ha" /\ pc = "show_mild"
    /\ Show("plot_severe")

\* Lines 178-180: the box plot of the mod-severe tier.
Ioi_PlotSevere ==
    /\ script = "ioi_ha" /\ pc = "plot_severe"
    /\ Plot(Boxplot(mod_severe), "show_severe")

\* Line 181: plt.show()
Ioi_ShowSevere ==
    /\ script = "ioi_ha" /\ pc = "show_severe"
    /\ Show("bar_mild")

\* Lines 189-195: the bar graph of the mild-moderate tier and the points
\* of its group norms.  sns.barplot builds its palette as sns.boxplot does.
Ioi_BarMild ==
    /\ script = "ioi_ha" /\ pc = "bar_mild"
    /\ Plot(Boxplot(mild_mod), "show_bar_mild")

\* Line 196: plt.show()
Ioi_ShowBarMild ==
    /\ script = "ioi_ha" /\ pc = "show_bar_mild"
    /\ Show("bar_severe")

\* Lines 200-206: the bar graph of the mod-severe tier.
Ioi_BarSevere ==
    /\ script = "ioi_ha" /\ pc = "bar_severe"
    /\ Plot(Boxplot(mod_severe), "show_bar_severe")

\* Lines 207-208: plt.show() (the second call has no figure to show and
\* returns), the last statements of the script.
Ioi_ShowBarSevere ==
    /\ script = "ioi_ha" /\ pc = "show_bar_severe"
    /\ Show("done")

NextIoi ==
    \/ Ioi_Columns
    \/ Ioi_Melt
    \/ Ioi_ForRow
    \/ Ioi_Finish
    \/ Ioi_PlotMild
    \/ Ioi_ShowMild
    \/ Ioi_PlotSevere
    \/ Ioi_ShowSevere
    \/ Ioi_BarMild
    \/ Ioi_ShowBarMild
    \/ Ioi_BarSevere
    \/ Ioi_ShowBarSevere

SpecIoi == InitIoi /\ [][NextIoi]_vars

(***************************************************************************)
(* Vocabulary of the properties.  These definitions read the input (the    *)
(* named wide table) and the written files; they state what the           *)
(* specification of the scripts expects and use none of the operators that *)
(* model the scoring code.                                                 *)
(***************************************************************************)
SubscaleNames == <<"EC", "BN", "RV", "AV">>

IsApha == script \in {"aphab", "aphab_per_style"}

\* The group label of wide row i ("none" in the script without styles).
StyleOfWide(i) == IF script = "aphab_per_style" THEN wide[i].style ELSE NoStyle

\* The subjects of style st.  A row whose subject cell is NaN carries no
\* subject identifier and belongs to no subject.
SubjectsOfStyle(st) ==
    {wide[i].subject : i \in {j \in 1..Len(wide) : StyleOfWide(j) = st}} \ {NaN}

StylesOfInput == {StyleOfWide(i) : i \in 1..Len(wide)}

\* Wide row i is a row of subject sub under style st.
RowOf(i, sub, st) == wide[i].subject = sub /\ StyleOfWide(i) = st

\* The response of a cell is missing: the cell is NaN (an empty field or
\* another NaN text of read_csv), or a str that reads as the float nan.
Missing(cell) == IsNaN(AsFloat(cell))

\* Responses of the group (sub, st, s) that are missing, among the six
\* cells of the subscale in every wide row of the subject.
MissingCount(sub, st, s) ==
    Cardinality({c \in (1..Len(wide)) \X Range(SubscaleList(s)) :
        RowOf(c[1], sub, st) /\ Missing(wide[c[1]].q[c[2]])})

ValidCodes == 1..7

\* The 7-point response scale and its scores, as the specification states
\* them: forward maps 1..7 to 99, 87, 75, 50, 25, 12, 1.
Forward(x) ==
    CASE x = 1 -> 99 [] x = 2 -> 87 [] x = 3 -> 75 [] x = 4 -> 50
      [] x = 5 -> 25 [] x = 6 -> 12 [] x = 7 -> 1

ReversedItems == {1, 9, 11, 16, 19, 21}

\* The cell is the text of a response code of the scale ("3", "3.0").
IsCode(cell) ==
    IF cell = NaN THEN FALSE
    ELSE IF OneDigit(cell) THEN cell[1] - 48 \in ValidCodes
    ELSE ~FloatError(cell) /\ AsFloat(cell) \in {<<x, 1>> : x \in ValidCodes}

\* The response code a cell holds.
CodeOf(cell) == AsFloat(cell)[1]

\* The score the specification gives a cell of question q; NaN where it
\* gives none (an empty cell, a code outside 1..7).
ExpectedScore(q, cell) ==
    IF ~IsCode(cell) THEN NaN
    ELSE IF q \in ReversedItems THEN <<Forward(8 - CodeOf(cell)), 1>>
    ELSE <<Forward(CodeOf(cell)), 1>>

\* The sum of the values of s that are not NaN, as a fraction that need
\* not be in lowest terms.
RECURSIVE Total(_, _, _)
Total(s, lo, hi) ==
    IF lo > hi THEN <<0, 1>>
    ELSE IF lo = hi THEN (IF s[lo] = NaN THEN <<0, 1>> ELSE s[lo])
    ELSE LET a == Total(s, lo, (lo + hi) \div 2)
             b == Total(s, (lo + hi) \div 2 + 1, hi)
         IN  <<a[1] * b[2] + b[1] * a[2], a[2] * b[2]>>

\* Arithmetic mean of the values of s that are not NaN; NaN if there is none.

ArithMean(s) ==
    LET n == Cardinality({k \in 1..Len(s) : s[k] # NaN})
        t == Total(s, 1, Len(s))
    IN  IF n = 0 THEN NaN ELSE Rat(t[1], t[2] * n)

\* The scores the specification gives the cells of the group (sub, st, s).
ExpectedScores(sub, st, s) ==
    Flatten([i \in 1..Len(wide) |->
        IF RowOf(i, sub, st)
        THEN [k \in 1..Len(SubscaleList(s)) |->
                 ExpectedScore(SubscaleList(s)[k], wide[i].q[SubscaleList(s)[k]])]
        ELSE <<>>])

\* The files written so far, by kind.
SubscaleFiles == {k \in 1..Len(files) : files[k].name \in {"_SUBSCALE.csv", "_SUBSCALE_"}}

GlobalFiles == {k \in 1..Len(files) : files[k].name \in {"_GLOBAL.csv", "_GLOBAL_"}}

\* Positions of the rows of (sub, s) in a subscale output.
SubscaleRowsOf(rows, sub, s) ==
    {k \in 1..Len(rows) : rows[k].subject = sub /\ rows[k].subscale = s}

GlobalRowsOf(rows, sub) == {k \in 1..Len(rows) : rows[k].subject = sub}

\* Every cell of a retained question is missing or a code of the scale.
NoInvalidCode ==
    \A i \in 1..Len(wide) : \A n \in 1..24 :
        Missing(wide[i].q[n]) \/ IsCode(wide[i].q[n])

(***************************************************************************)
(* C1.  Global score = mean of the surviving subscale means.               *)
(***************************************************************************)
\* The subscale means of sub among BN, EC, RV in the subscale output rows.
SurvivingMeans(rows, sub) ==
    Column(Pick(rows, {k \in 1..Len(rows) :
                          rows[k].subject = sub /\ rows[k].subscale \in {"BN", "EC", "RV"}}),
           "score")

\* C1: for every subject, the global score written to the global output
\* equals the arithmetic mean of that subject's surviving subscale means
\* over BN, EC, RV (stated here for inputs without invalid codes).
C1_GlobalIsMeanOfSubscaleMeans ==
    (IsApha /\ NoInvalidCode) =>
        \A g \in GlobalFiles : \A f \in SubscaleFiles :
            files[f].style = files[g].style =>
                \A k \in 1..Len(files[g].rows) :
                    files[g].rows[k].score =
                        ArithMean(SurvivingMeans(files[f].rows, files[g].rows[k].subject))

(***************************************************************************)
(* C2.  Exclusion threshold.                                               *)
(***************************************************************************)
\* The scores the specification expects among the items of the groups of
\* sub that are kept (at most 2 missing) in BN, EC, RV.
KeptGlobalScores(sub, st) ==
    Flatten([k \in 1..3 |->
        IF MissingCount(sub, st, <<"EC", "BN", "RV">>[k]) > 2
        THEN <<>>
        ELSE ExpectedScores(sub, st, <<"EC", "BN", "RV">>[k])])

C2_SubscaleOutput(f) ==
    \A sub \in SubjectsOfStyle(f.style) : \A n \in 1..4 :
        LET s == SubscaleNames[n]
            at == SubscaleRowsOf(f.rows, sub, s)
        IN  IF MissingCount(sub, f.style, s) > 2
            THEN at = {}
            ELSE /\ Cardinality(at) = 1
                 /\ \A k \in at : f.rows[k].score = ArithMean(ExpectedScores(sub, f.style, s))

C2_GlobalOutput(g) ==
    \A sub \in SubjectsOfStyle(g.style) :
        LET at == GlobalRowsOf(g.rows, sub)
        IN  IF \A n \in 1..3 : MissingCount(sub, g.style, <<"EC", "BN", "RV">>[n]) > 2
            THEN at = {}
            ELSE /\ Cardinality(at) = 1
                 /\ \A k \in at : g.rows[k].score = ArithMean(KeptGlobalScores(sub, g.style))

\* C2: a (subject, subscale) group with more than 2 missing responses has
\* no row in the subscale output and none of its items in the subject's
\* global score; a group with at most 2 missing has one row, whose mean is
\* the mean of its non-missing scored values.
C2_ExclusionThreshold ==
    IsApha =>
        /\ \A f \in SubscaleFiles : C2_SubscaleOutput(files[f])
        /\ \A g \in GlobalFiles : C2_GlobalOutput(files[g])

\* A run is over in which a group with 1 or 2 missing responses was kept
\* and a group with more than 2 was removed.
C2_Witness ==
    /\ IsApha /\ pc = "done"
    /\ \E f \in SubscaleFiles : \E sub \in SubjectsOfStyle(files[f].style) :
          /\ \E n \in 1..4 :
                /\ MissingCount(sub, files[f].style, SubscaleNames[n]) \in {1, 2}
                /\ SubscaleRowsOf(files[f].rows, sub, SubscaleNames[n]) # {}
          /\ \E n \in 1..4 :
                /\ MissingCount(sub, files[f].style, SubscaleNames[n]) > 2
                /\ SubscaleRowsOf(files[f].rows, sub, SubscaleNames[n]) = {}

(***************************************************************************)
(* Stages of the APHAB scripts.                                            *)
(***************************************************************************)
\* The long table exists: the reshaping block has run.
Melted ==
    /\ IsApha
    /\ pc \in {"score", "call", "for_style", "subscale", "missing", "clean",
               "subscale_scores", "global_scores", "plot_subscale", "show_subscale",
               "plot_global", "show_global", "done"}

\* Every row of data has its score: the scoring block has run.
Scored ==
    /\ IsApha
    /\ pc \in {"call", "for_style", "subscale", "missing", "clean",
               "subscale_scores", "global_scores", "plot_subscale", "show_subscale",
               "plot_global", "show_global", "done"}

\* The subscale column has just been filled; nothing is removed yet.
Assigned == IsApha /\ pc \in {"missing", "clean"}

\* Positions (wide row, question) of the retained cells of the input.
RetainedCells == (1..Len(wide)) \X (1..24)

(***************************************************************************)
(* C3.  A present response outside 1..7 is surfaced as a lookup error.     *)
(***************************************************************************)
InvalidCells ==
    {c \in RetainedCells :
        ~Missing(wide[c[1]].q[c[2]]) /\ ~IsCode(wide[c[1]].q[c[2]])}

\* C3: when a present response is not a key of the scoring lookup, the
\* scorer surfaces a lookup error: once scoring has run on a table with
\* such a response, the run has reported an error.
C3_InvalidCodeSurfaced ==
    (Scored /\ InvalidCells # {}) => error # "none"

(***************************************************************************)
(* C4.  Forward and reversed scoring tables.                               *)
(***************************************************************************)
\* C4: for q in 1..24 and x in 1..7 the scored value is forward(x) when q
\* is not a reversed item and forward(8 - x) when q is in
\* {1, 9, 11, 16, 19, 21}; the two tables are bijections of 1..7 onto the
\* same score set and mirror images of each other.
C4_ScoringTables ==
    /\ \A x \in 1..7 :
          /\ not_reversed_score[x] = Forward(x)
          /\ reversed_score[x] = Forward(8 - x)
    /\ \A x, y \in 1..7 :
          /\ (not_reversed_score[x] = not_reversed_score[y]) => x = y
          /\ (reversed_score[x] = reversed_score[y]) => x = y
    /\ {not_reversed_score[x] : x \in 1..7} = {reversed_score[x] : x \in 1..7}
    /\ Scored =>
          \A k \in 1..Len(data) :
              (data[k].value # NaN /\ data[k].value[2] = 1 /\ data[k].value[1] \in 1..7) =>
                  data[k].score =
                      IF data[k].q_num \in ReversedItems
                      THEN <<Forward(8 - data[k].value[1]), 1>>
                      ELSE <<Forward(data[k].value[1]), 1>>

\* Scoring has run on a table in which a reversed and a plain question are
\* both answered 7: the reversed one scores 99, the plain one 1.
C4_Witness ==
    /\ Scored
    /\ \E k \in 1..Len(data) :
          data[k].q_num = 21 /\ data[k].value = <<7, 1>> /\ data[k].score = <<99, 1>>
    /\ \E k \in 1..Len(data) :
          data[k].q_num = 24 /\ data[k].value = <<7, 1>> /\ data[k].score = <<1, 1>>

(***************************************************************************)
(* C5.  IOI-HA: tier and within-normal-limits tag.                         *)
(***************************************************************************)
\* The tier the specification assigns: difficulty response > 2.
ExpectedTier(v) == IF v # NaN /\ v[1] > 2 * v[2] THEN "mild-mod" ELSE "mod-severe"

\* The individual band of a tier for question q, as lower and upper limit
\* in hundredths: the limits of ind_mild_dict ((3, 5) for question 1), and
\* mean - tolerance, mean + tolerance of ind_mod_dict.
ExpectedBand(tier, q) ==
    IF tier = "mild-mod"
    THEN << <<300, 500>>, <<300, 400>>, <<300, 400>>, <<200, 400>>,
            <<300, 400>>, <<300, 500>>, <<300, 400>> >>[q]
    ELSE << <<354, 546>>, <<244, 460>>, <<214, 424>>, <<267, 501>>,
            <<227, 449>>, <<228, 448>>, <<266, 470>> >>[q]

ExpectedTag(tier, q, v) ==
    IF /\ v # NaN
       /\ ExpectedBand(tier, q)[1] * v[2] <= 100 * v[1]
       /\ 100 * v[1] <= ExpectedBand(tier, q)[2] * v[2]
    THEN "wnl" ELSE "outside"

\* The wide row a long row of ioi_ha.py comes from.
IoiWideRowOf(k) == ((k - 1) % Len(wide)) + 1

\* C5: a subject whose response to question 8 is greater than 2 is in the
\* mild-moderate tier, otherwise in the mod-severe tier; every response to
\* questions 1..7 is tagged within-normal-limits exactly when it lies in
\* the individual band of the subject's own tier; the run completes with a
\* tag on every row.
C5_TierAndTag ==
    script = "ioi_ha" =>
        /\ error # "NameError"
        /\ pc = "done" =>
              \A k \in 1..Len(data) :
                  /\ data[k].difficulty = ExpectedTier(wide[IoiWideRowOf(k)].q[8])
                  /\ data[k].WNL # ""
                  /\ data[k].question \in 1..7 =>
                        data[k].WNL =
                            ExpectedTag(data[k].difficulty, data[k].question, data[k].score)

(***************************************************************************)
(* C6.  Column count.                                                      *)
(***************************************************************************)
\* Columns the specification expects after the 17 leading ones: the 24
\* questions of the benefit instrument, the subject, and the group column
\* of the style-aware instrument.
ExpectedColumns == 24 + 1 + (IF script = "aphab_per_style" THEN 1 ELSE 0)

TableColumns == Len(table[1])

\* The field is a NaN text of read_csv in every version of pandas, or the
\* text of a number.
Readable(field) == field \in NaTokens \/ ~FloatError(field)

\* Every style field is an integer text naming one of the 7 styles, and
\* every question field is readable.
CellsReadable ==
    LET lead == IF script = "aphab_per_style" THEN 2 ELSE 1
    IN  /\ script = "aphab_per_style" =>
              \A i \in 1..Len(table) :
                  int(table[i][2]).ok /\ int(table[i][2]).value \in 1..7
        /\ \A i \in 1..Len(table) : \A k \in (lead + 1)..Len(table[i]) :
              Readable(table[i][k])

\* C6: a table whose column count is not the expected one aborts the run
\* with a schema error before any scoring, aggregation or output; a table
\* with the expected layout is accepted (stated for tables whose cells
\* are readable).
C6_ColumnCount ==
    (IsApha /\ pc # "columns" /\ CellsReadable) =>
        IF TableColumns = ExpectedColumns
        THEN pc # "aborted"
        ELSE pc = "aborted" /\ error = "ValueError" /\ data = <<>> /\ files = <<>>

(***************************************************************************)
(* C7.  Reshaping round trip.                                              *)
(***************************************************************************)
\* The cell of one digit that holds the float v: NaN for NaN, and the text
\* "?" for a float that no such cell holds.
TextOf(v) ==
    IF v = NaN THEN NaN
    ELSE IF v[2] = 1 /\ v[1] \in 0..9 THEN <<48 + v[1]>>
    ELSE <<63>>

StyleOfLong(k) == IF script = "aphab_per_style" THEN data[k].style ELSE NoStyle

\* Question columns of the wide table.
WideQuestions == DOMAIN wide[1].q

\* Long rows that carry subject, group label, question and cell text.
LongCount(sub, st, n, cell) ==
    Cardinality({k \in 1..Len(data) :
        /\ data[k].subject = sub /\ StyleOfLong(k) = st
        /\ data[k].q_num = n /\ TextOf(data[k].value) = cell})

\* Wide rows that carry subject and group label with that cell at column n.
WideCount(sub, st, n, cell) ==
    Cardinality({i \in 1..Len(wide) :
        wide[i].subject = sub /\ StyleOfWide(i) = st /\ wide[i].q[n] = cell})

\* The long table holds the cells of the question columns Q of the wide
\* table, each once, with subject, group label and value unchanged, and
\* nothing else: pivoting it back gives those columns of the wide table.
PivotsBackOn(Q) ==
    /\ Len(data) = Len(wide) * Cardinality(Q)
    /\ \A i \in 1..Len(wide) : \A n \in Q :
          LongCount(wide[i].subject, StyleOfWide(i), n, wide[i].q[n])
              = WideCount(wide[i].subject, StyleOfWide(i), n, wide[i].q[n])

\* C7 as stated: reshaping produces one long row per wide cell, unchanged,
\* so that re-pivoting the long table yields the original wide table.
C7_RoundTripAllColumns ==
    (IsApha /\ pc = "score") => PivotsBackOn(WideQuestions)

(***************************************************************************)
(* C8.  Insufficient data is never fatal.                                  *)
(***************************************************************************)
\* The positions of the two scripts.
Positions ==
    {"columns", "melt", "score", "call", "for_style", "subscale", "missing",
     "clean", "subscale_scores", "global_scores", "plot_subscale",
     "show_subscale", "plot_global", "show_global", "done", "aborted"}

\* The script has neither ended nor raised.
Running == pc \notin {"done", "aborted"}

\* The script is inside plt.show(), which returns when the user closes the
\* plot window.
PlotWindows == {"show_subscale", "show_global"}

\* The interpreter goes on to the next statement of a running script that
\* is not waiting for the user.
Proceed == Running /\ pc \notin PlotWindows /\ pc' \in Positions /\ pc' # pc

\* A script is executed top to bottom: while it is running and not inside
\* plt.show(), it eventually moves to its next block.  Nothing is assumed
\* of the user: a plot window may stay open for ever.
FairSpec == Spec /\ WF_pc(Proceed)

\* The table has the layout of the specification (the subject, the group
\* column of the style-aware instrument, 24 questions), every style field
\* names a style and every question field is readable.
SchemaValid == TableColumns = ExpectedColumns /\ CellsReadable

\* The (subject, subscale) groups of style st with more than 2 missing.
InsufficientGroups(st) ==
    {p \in {<<sub, SubscaleNames[n]>> : sub \in SubjectsOfStyle(st), n \in 1..4} :
        MissingCount(p[1], st, p[2]) > 2}

\* The exclusion report is the set of those groups, each once.
C8_Report ==
    pc \in {"clean", "subscale_scores", "global_scores"} =>
        /\ Range(missing_data) = InsufficientGroups(style)
        /\ Len(missing_data) = Cardinality(InsufficientGroups(style))

\* Every group that is not in the report has one row in the subscale
\* output.
C8_Output ==
    \A f \in SubscaleFiles :
        \A sub \in SubjectsOfStyle(files[f].style) : \A n \in 1..4 :
            <<sub, SubscaleNames[n]>> \notin InsufficientGroups(files[f].style) =>
                Cardinality(SubscaleRowsOf(files[f].rows, sub, SubscaleNames[n])) = 1

\* At the end both outputs of every style of the input are written.
C8_Written ==
    pc = "done" =>
        /\ {files[f].style : f \in SubscaleFiles} = StylesOfInput
        /\ {files[g].style : g \in GlobalFiles} = StylesOfInput
        /\ Cardinality(SubscaleFiles) = Cardinality(StylesOfInput)
        /\ Cardinality(GlobalFiles) = Cardinality(StylesOfInput)

C8_Safe ==
    (IsApha /\ SchemaValid) =>
        /\ error = "none"
        /\ (pc # "columns") => (C8_Report /\ C8_Output /\ C8_Written)

\* C8: for any schema-valid table, whatever number of groups exceed the
\* tolerance, the run never raises, reaches its end and has then written
\* its outputs; the exclusion report is exactly the set of groups with
\* more than 2 missing responses, and every group not in the report
\* appears exactly once in the subscale output.
C8_NeverFatal ==
    /\ [](C8_Safe)
    /\ (IsApha /\ SchemaValid) ~> (pc = "done")

(***************************************************************************)
(* C9.  Missing propagation.                                               *)
(***************************************************************************)
\* Scoring has just run on the whole long table.
JustScored ==
    \/ script = "aphab" /\ pc = "subscale"
    \/ script = "aphab_per_style" /\ pc = "call"

\* The retained cells whose response is missing.
EmptyCells == {c \in RetainedCells : Missing(wide[c[1]].q[c[2]])}

\* C9: for every long row, reversed or not, a missing raw value gives a
\* missing score; every unanswered question of the input is such a row.
C9_MissingPropagates ==
    /\ Scored => \A k \in 1..Len(data) : (data[k].value = NaN) => (data[k].score = NaN)
    /\ JustScored =>
          /\ Cardinality({k \in 1..Len(data) : data[k].value = NaN}) = Cardinality(EmptyCells)
          /\ Cardinality({k \in 1..Len(data) : data[k].score = NaN}) >= Cardinality(EmptyCells)

\* Scoring has run on a table with an unanswered reversed question and an
\* unanswered plain question.
C9_Witness ==
    /\ JustScored
    /\ \E k \in 1..Len(data) :
          data[k].value = NaN /\ data[k].reversed /\ data[k].score = NaN
    /\ \E k \in 1..Len(data) :
          data[k].value = NaN /\ ~data[k].reversed /\ data[k].score = NaN

(***************************************************************************)
(* C10.  Category assignment is a partition.                               *)
(***************************************************************************)
\* Wide rows of subject sub among the rows the current data come from.
InputRowsOf(sub) ==
    Cardinality({i \in 1..Len(wide) : wide[i].subject = sub /\ StyleOfWide(i) = style})

\* C10: the four membership lists are pairwise disjoint, cover 1..24 and
\* hold 6 questions each; after the assignment step no long row carries
\* the placeholder 0 and every (subject, subscale) group has exactly 6
\* rows per input row of that subject.
C10_Partition ==
    /\ Range(EC) \cup Range(BN) \cup Range(RV) \cup Range(AV) = 1..24
    /\ \A n \in 1..4 : Cardinality(Range(SubscaleList(SubscaleNames[n]))) = 6
    /\ \A n, m \in 1..4 :
          n # m => Range(SubscaleList(SubscaleNames[n]))
                       \cap Range(SubscaleList(SubscaleNames[m])) = {}
    /\ Assigned =>
          /\ \A k \in 1..Len(data) : data[k].subscale \in Range(SubscaleNames)
          /\ \A sub \in {data[k].subject : k \in 1..Len(data)} : \A n \in 1..4 :
                Cardinality({j \in 1..Len(data) :
                    data[j].subject = sub /\ data[j].subscale = SubscaleNames[n]})
                    = 6 * InputRowsOf(sub)

\* The subscale column has been filled for a subject with two input rows.
C10_Witness ==
    /\ Assigned
    /\ \E k \in 1..Len(data) :
          /\ InputRowsOf(data[k].subject) = 2
          /\ data[k].subscale = "AV"

(***************************************************************************)
(* C11.  Style isolation.                                                  *)
(***************************************************************************)
\* The wide rows that carry style st, in table order.
WideOfStyle(st) == Pick(wide, {i \in 1..Len(wide) : wide[i].style = st})

\* The blocks of the script applied to the rows of style st alone, as if
\* the input held no other style.
AloneAssigned(st) ==
    AssignSubscale(Score(StyleMelt(WideOfStyle(st), StyleQuestionColumns)))

AloneMissing(st) == MissingData(AloneAssigned(st))

AloneClean(st) ==
    LET alone == AloneAssigned(st)
    IN  RemoveMissing(alone, MissingData(alone))

\* The subscale and the global table of style st alone.
AloneResults(st) ==
    LET clean == AloneClean(st)
    IN  [subscale |-> SubscaleData(clean), global |-> GlobalScores(clean)]

\* Every file written holds the table of its style alone.
FilesAreAlone ==
    \A st \in {files[f].style : f \in 1..Len(files)} :
        LET alone == AloneResults(st)
        IN  \A f \in 1..Len(files) :
                files[f].style = st =>
                    files[f].rows = IF f \in SubscaleFiles THEN alone.subscale
                                    ELSE alone.global

\* A group excluded under one style and kept under another has its row,
\* with the mean of its own answered items, in the output of the other.
KeptElsewhere ==
    \A f \in SubscaleFiles : \A st \in StylesOfInput \ {files[f].style} :
        \A sub \in SubjectsOfStyle(files[f].style) \cap SubjectsOfStyle(st) :
            \A n \in 1..4 :
                (/\ MissingCount(sub, st, SubscaleNames[n]) > 2
                 /\ MissingCount(sub, files[f].style, SubscaleNames[n]) <= 2) =>
                    \E k \in 1..Len(files[f].rows) :
                        /\ files[f].rows[k].subject = sub
                        /\ files[f].rows[k].subscale = SubscaleNames[n]
                        /\ files[f].rows[k].score =
                              ArithMean(ExpectedScores(sub, files[f].style, SubscaleNames[n]))

\* C11: in the style-partitioned script the exclusion list, the rows kept
\* and the subscale and global results of a style are those the same
\* blocks give on the rows of that style alone, whatever the subject
\* answered under another style; a group excluded under one style keeps
\* its result under another.
C11_StyleIsolation ==
    script = "aphab_per_style" =>
        /\ pc = "clean" => missing_data = AloneMissing(style)
        /\ pc = "subscale_scores" => data = AloneClean(style)
        /\ pc = "done" => (FilesAreAlone /\ KeptElsewhere)

\* The run is over for a subject who answered under two styles, with a
\* group excluded under one style and reported under the other.
C11_Witness ==
    /\ script = "aphab_per_style" /\ pc = "done"
    /\ \E f \in SubscaleFiles : \E st \in StylesOfInput \ {files[f].style} :
          \E sub \in SubjectsOfStyle(files[f].style) \cap SubjectsOfStyle(st) :
              \E n \in 1..4 :
                  /\ MissingCount(sub, st, SubscaleNames[n]) > 2
                  /\ SubscaleRowsOf(files[f].rows, sub, SubscaleNames[n]) # {}

=============================================================================
